---------------------------- MODULE Spec2Model ----------------------------
(***************************************************************************)
(* Model of the shopping-list manager (chars222/lista-compras): a          *)
(* Streamlit form application whose datastore is a Google spreadsheet,    *)
(* one tab per list.  Three entry variants exist in the repository:       *)
(*   "app"      src/app.py            (accordion + instant edits)         *)
(*   "app_bk"   src/app_bk.py         (accordion + grid editor)           *)
(*   "app_copy" src/unnamed/part_000  ("app copy.py", flat form + grid)   *)
(*                                                                         *)
(* Conventions of the model                                                *)
(*  - A text (cell, list title, item name) is a TLA+ string over ASCII.   *)
(*    The emoji prefix of the category labels and the accented letters    *)
(*    of three template names are dropped: the tools read ASCII only.     *)
(*  - A float64 is an integer count of hundredths (1.5 is 150).           *)
(*  - A DataFrame is a sequence of row records; the field idx is the      *)
(*    pandas index label (the row identity assigned at load).             *)
(*  - A missing value (None / NaN / pd.NA) of a text column is the text   *)
(*    NA; of a non-text column it is recorded in the row's field na.      *)
(***************************************************************************)
EXTENDS Integers, Sequences, FiniteSets, TLC

VARIABLES
    variant,            \* which entry file runs: "app", "app_bk", "app_copy"
    observed,           \* the observed= default of the installed pandas groupby
    sheets,             \* the spreadsheet: tab title -> grid of text cells
    current_list_name,  \* st.session_state.current_list_name (NoList = None)
    view_mode,          \* st.session_state.view_mode ("plan", "shop", "none")
    screen,             \* what the page shows: "selector", "editor", "load_error"
    list_titles,        \* the titles the selector enumerated when it rendered
    items_df,           \* the table the editor loaded in the current run
    temp_updates,       \* shop form widgets: idx -> [is_checked, price]
    last,               \* the last user action, its inputs and its outcome
    creates,            \* number of create submits so far
    saves,              \* number of save submits so far
    peer                \* a second session on the spreadsheet: its open list,
                        \* loaded table and form, its number of save submits

vars == <<variant, observed, sheets, current_list_name, view_mode, screen, list_titles,
          items_df, temp_updates, last, creates, saves, peer>>

-----------------------------------------------------------------------------
(* Bounds of the model *)

\* create submits per behaviour; the behaviours explored create before they
\* save
MaxCreates == 1
\* save submits (shop form, planning grid) per behaviour
MaxSaves == 1
\* the greatest index label of a row whose widgets the user changes
MaxFormRow == 4

-----------------------------------------------------------------------------
(* Texts *)

\* the characters of the model's texts, in code-point order
Alphabet == " ()+,-.0123456789<>ABCDEFGHIJKLMNOPQRSTUVWXYZabcdefghijklmnopqrstuvwxyz"

Chars == {SubSeq(Alphabet, i, i) : i \in 1..Len(Alphabet)}

\* ord(c) up to a monotone renumbering
Ord == [c \in Chars |-> CHOOSE i \in 1..Len(Alphabet) : SubSeq(Alphabet, i, i) = c]

UpperCase == "ABCDEFGHIJKLMNOPQRSTUVWXYZ"
LowerCase == "abcdefghijklmnopqrstuvwxyz"

\* str.lower() of one character, tabulated over the alphabet
LowerTable ==
    [c \in Chars |->
        IF \E i \in 1..Len(UpperCase) : SubSeq(UpperCase, i, i) = c
        THEN LET i == CHOOSE j \in 1..Len(UpperCase) : SubSeq(UpperCase, j, j) = c
             IN  SubSeq(LowerCase, i, i)
        ELSE c]

LowerChar(c) == LowerTable[c]

\* the i-th character of a text
CharAt(t, i) == SubSeq(t, i, i)

RECURSIVE Lower(_)
\* str.lower(), halving the text
Lower(t) ==
    IF t = "" THEN ""
    ELSE IF Len(t) = 1 THEN LowerChar(t)
    ELSE Lower(SubSeq(t, 1, Len(t) \div 2)) \o Lower(SubSeq(t, (Len(t) \div 2) + 1, Len(t)))

RECURSIVE FirstDiff(_, _, _, _)
\* the first position of lo..hi where a and b differ (they do differ there),
\* found by halving
FirstDiff(a, b, lo, hi) ==
    IF lo = hi THEN lo
    ELSE IF SubSeq(a, lo, (lo + hi) \div 2) # SubSeq(b, lo, (lo + hi) \div 2)
         THEN FirstDiff(a, b, lo, (lo + hi) \div 2)
         ELSE FirstDiff(a, b, ((lo + hi) \div 2) + 1, hi)

\* Python's a < b on str: lexicographic by code point, decided at the first
\* position where the texts differ, or by length when one is a prefix
TextLess(a, b) ==
    LET n == IF Len(a) < Len(b) THEN Len(a) ELSE Len(b)
    IN  IF SubSeq(a, 1, n) = SubSeq(b, 1, n) THEN Len(a) < Len(b)
        ELSE LET k == FirstDiff(a, b, 1, n)
             IN  Ord[CharAt(a, k)] < Ord[CharAt(b, k)]

RECURSIVE ReplaceChar(_, _, _)
\* str.replace(old, new) for one-character old, halving the text
ReplaceChar(t, old, new) ==
    IF t = "" THEN ""
    ELSE IF Len(t) = 1 THEN (IF t = old THEN new ELSE t)
    ELSE ReplaceChar(SubSeq(t, 1, Len(t) \div 2), old, new)
           \o ReplaceChar(SubSeq(t, (Len(t) \div 2) + 1, Len(t)), old, new)

\* a missing text value (None, NaN, pd.NA); str(pd.NA) is this text too
NA == "<NA>"

-----------------------------------------------------------------------------
(* Numbers: float64 as a count of hundredths *)

Scale == 100
FracDigits == 2

RECURSIVE Pow10(_)
Pow10(n) == IF n <= 0 THEN 1 ELSE 10 * Pow10(n - 1)

RECURSIVE NumDigits(_)
NumDigits(n) == IF n < 10 THEN 1 ELSE 1 + NumDigits(n \div 10)

Digits == "0123456789"

DigitSet == {SubSeq(Digits, i, i) : i \in 1..10}

IsDigit(c) == c \in DigitSet

\* int(c) of a digit character, tabulated
DigitTable == [c \in DigitSet |-> (CHOOSE i \in 1..10 : SubSeq(Digits, i, i) = c) - 1]

DigitVal(c) == DigitTable[c]

RECURSIVE DigitsOf(_, _)
\* the decimal digits of n >= 0, left-padded with zeros to the given width
DigitsOf(n, width) ==
    IF n < 10 /\ width <= 1 THEN SubSeq(Digits, n + 1, n + 1)
    ELSE DigitsOf(n \div 10, width - 1) \o SubSeq(Digits, (n % 10) + 1, (n % 10) + 1)

RECURSIVE StripZeros(_)
\* drop the trailing zeros of a digit text
StripZeros(t) ==
    IF t = "" THEN ""
    ELSE IF SubSeq(t, Len(t), Len(t)) = "0" THEN StripZeros(SubSeq(t, 1, Len(t) - 1))
    ELSE t

\* the six significant digits and the decimal exponent "%g" keeps of a > 0:
\* round-half-even on the decimal digits (the inputs of the model hold no tie
\* that is not exactly representable in binary)
SixDigits(a) ==
    LET nd == NumDigits(a)
        X  == nd - 1 - FracDigits
    IN  IF nd > 6
        THEN LET p  == Pow10(nd - 6)
                 q0 == a \div p
                 r  == a % p
                 q  == IF 2 * r > p \/ (2 * r = p /\ q0 % 2 = 1) THEN q0 + 1 ELSE q0
             IN  IF q = Pow10(6) THEN [q |-> Pow10(5), X |-> X + 1]
                 ELSE [q |-> q, X |-> X]
        ELSE [q |-> a * Pow10(6 - nd), X |-> X]

\* the text of "{:g}" for the sign and the six significant digits s of a
\* number: no trailing zeros, exponent notation from 1e+06 up
FormatDigits(sign, s) ==
    IF s.X < -4 \/ s.X >= 6
    THEN LET m    == DigitsOf(s.q, 6)
             frac == StripZeros(Tail(m))
             ax   == IF s.X < 0 THEN 0 - s.X ELSE s.X
         IN  sign \o Head(m) \o (IF frac = "" THEN "" ELSE "." \o frac)
                  \o "e" \o (IF s.X < 0 THEN "-" ELSE "+") \o DigitsOf(ax, 2)
    ELSE IF s.X >= 5 THEN sign \o DigitsOf(s.q * Pow10(s.X - 5), 1)
    ELSE LET w  == 5 - s.X
             fr == StripZeros(DigitsOf(s.q % Pow10(w), w))
         IN  sign \o DigitsOf(s.q \div Pow10(w), 1)
                  \o (IF fr = "" THEN "" ELSE "." \o fr)

\* "{:g}".format(x): at most six significant digits
FormatG(v) ==
    IF v = 0 THEN "0"
    ELSE FormatDigits(IF v < 0 THEN "-" ELSE "",
                      SixDigits(IF v < 0 THEN 0 - v ELSE v))

\* format_to_comma_string of a number present in the frame
format_to_comma_string(x) == ReplaceChar(FormatG(x), ".", ",")

\* length of the longest prefix of t made of digits
DigitPrefixLen(t) ==
    LET stops == {i \in 1..Len(t) : ~IsDigit(CharAt(t, i))}
    IN  IF stops = {} THEN Len(t)
        ELSE (CHOOSE i \in stops : \A j \in stops : i <= j) - 1

RECURSIVE DigitsValue(_, _)
\* value of a digit text, accumulated left to right
DigitsValue(t, acc) ==
    IF t = "" THEN acc ELSE DigitsValue(Tail(t), 10 * acc + DigitVal(Head(t)))

NotANumber == [ok |-> FALSE, v |-> 0]

\* pd.to_numeric(text, errors='coerce') of one cell:
\*   [sign] digits [. digits] [e [sign] digits], at least one mantissa digit;
\* anything else is NaN.  The operators below read the text left to right.
\* Fraction digits beyond the model's resolution are dropped, as float64
\* drops what it cannot hold.

\* the value of mantissa mant (an integer) times 10^(shift - FracDigits)
Scaled(neg, mant, shift) ==
    [ok |-> TRUE,
     v  |-> (IF neg THEN 0 - 1 ELSE 1) *
            (IF shift < 0 THEN mant \div Pow10(0 - shift) ELSE mant * Pow10(shift))]

\* the digits of the exponent, which must reach the end of the text
ExpDigits(neg, mant, nf, expNeg, t) ==
    IF t = "" \/ DigitPrefixLen(t) # Len(t) THEN NotANumber
    ELSE Scaled(neg, mant,
                (IF expNeg THEN 0 - DigitsValue(t, 0) ELSE DigitsValue(t, 0))
                  - nf + FracDigits)

\* what follows the mantissa: nothing, or e / E, an optional sign and digits
ExpPart(neg, mant, nf, t) ==
    IF t = "" THEN Scaled(neg, mant, FracDigits - nf)
    ELSE IF Head(t) \notin {"e", "E"} THEN NotANumber
    ELSE IF Tail(t) # "" /\ Head(Tail(t)) \in {"+", "-"}
         THEN ExpDigits(neg, mant, nf, Head(Tail(t)) = "-", Tail(Tail(t)))
         ELSE ExpDigits(neg, mant, nf, FALSE, Tail(t))

\* the fraction digits after the point: nf of them lead t
FracPart(neg, ipart, t, nf) ==
    IF Len(ipart) + nf = 0 THEN NotANumber
    ELSE ExpPart(neg, DigitsValue(ipart \o SubSeq(t, 1, nf), 0), nf,
                 SubSeq(t, nf + 1, Len(t)))

\* the integer digits ipart are read, t follows them
AfterInt(neg, ipart, t) ==
    IF t # "" /\ Head(t) = "." THEN FracPart(neg, ipart, Tail(t), DigitPrefixLen(Tail(t)))
    ELSE FracPart(neg, ipart, t, 0)

\* the unsigned part: ni integer digits lead t
Unsigned(neg, t, ni) == AfterInt(neg, SubSeq(t, 1, ni), SubSeq(t, ni + 1, Len(t)))

to_numeric(t) ==
    IF t # "" /\ Head(t) \in {"+", "-"}
    THEN Unsigned(Head(t) = "-", Tail(t), DigitPrefixLen(Tail(t)))
    ELSE Unsigned(FALSE, t, DigitPrefixLen(t))

\* pd.to_numeric(..., errors='coerce').fillna(0.0)
to_numeric_fillna(t) == LET n == to_numeric(t) IN IF n.ok THEN n.v ELSE 0

-----------------------------------------------------------------------------
(* Enumerations, columns and the default template *)

CATEGORIAS == <<"Verduras", "Frutas", "Carnes", "Abarrotes", "Limpieza", "Otros">>
UNIDADES == <<"U (Unidad)", "kg", "g", "lb (Libra)", "L (Litro)", "ml">>

expected_cols == <<"category", "name", "quantity", "unit", "price", "is_checked">>

Range(s) == {s[i] : i \in DOMAIN s}

\* a frame given row by row, as the sequence of its rows
Frame(f) == f \o <<>>

CatSet == Range(CATEGORIAS)

\* one row of a typed frame (after the numeric and boolean coercions)
Row(idx, category, name, quantity, unit, price, is_checked) ==
    [idx |-> idx, category |-> category, name |-> name, quantity |-> quantity,
     unit |-> unit, price |-> price, is_checked |-> is_checked, na |-> {}]

\* one literal of the template: unchecked
T(category, name, quantity, unit, price) ==
    [category |-> category, name |-> name, quantity |-> quantity,
     unit |-> unit, price |-> price]

TemplateRows == <<
    T("Verduras", "Tomates", 100, "kg", 0),
    T("Verduras", "Cebollas", 300, "lb (Libra)", 0),
    T("Verduras", "Papa harinosa", 600, "lb (Libra)", 1200),
    T("Verduras", "Papa holadesa", 300, "lb (Libra)", 600),
    T("Verduras", "Platano", 600, "U (Unidad)", 1000),
    T("Verduras", "Zapallo", 50, "kg", 500),
    T("Verduras", "lechuga carola", 200, "U (Unidad)", 1300),
    T("Verduras", "Brocoli", 100, "U (Unidad)", 800),
    T("Verduras", "Espinaca", 200, "U (Unidad)", 800),
    T("Verduras", "choclo", 600, "U (Unidad)", 2000),
    T("Frutas", "Guineo", 600, "U (Unidad)", 600),
    T("Frutas", "Manzana", 400, "U (Unidad)", 1000),
    T("Frutas", "Pera", 300, "U (Unidad)", 1000),
    T("Frutas", "Limon cambita", 1000, "U (Unidad)", 1000),
    T("Frutas", "Limon de licuar", 1000, "U (Unidad)", 1000),
    T("Frutas", "Pina", 100, "U (Unidad)", 800),
    T("Frutas", "Arandanos", 100, "U (Unidad)", 1800),
    T("Frutas", "Frutillas", 100, "U (Unidad)", 1500),
    T("Carnes", "Pollo", 200, "U (Unidad)", 9000),
    T("Carnes", "Pollo (Pechuga)", 100, "U (Unidad)", 2600),
    T("Carnes", "Bollo chico", 100, "kg", 7000),
    T("Abarrotes", "Arroz", 100, "kg", 0),
    T("Abarrotes", "Huevo Maple", 100, "U (Unidad)", 2400),
    T("Abarrotes", "Quezo", 50, "kg", 2200),
    T("Abarrotes", "Fideo codito", 100, "kg", 800),
    T("Abarrotes", "Fideo espiral", 100, "kg", 800),
    T("Abarrotes", "Papel higuineco 24", 100, "U (Unidad)", 2600),
    T("Abarrotes", "Servilleta mesa", 100, "U (Unidad)", 1500),
    T("Abarrotes", "Servilleta cocina", 100, "U (Unidad)", 1500),
    T("Abarrotes", "Ajo cabeza", 100, "U (Unidad)", 200),
    T("Abarrotes", "Quinua", 50, "kg", 1000),
    T("Abarrotes", "Azucar Morena", 100, "kg", 800),
    T("Abarrotes", "Azucar Blanca", 100, "kg", 600),
    T("Abarrotes", "Te frutas Pack", 100, "U (Unidad)", 2500),
    T("Abarrotes", "Te canela Pack", 100, "U (Unidad)", 1200),
    T("Abarrotes", "Te manzanilla Pack", 100, "U (Unidad)", 1200),
    T("Abarrotes", "Agua bebe", 300, "L (Litro)", 1100),
    T("Limpieza", "Detergente ropa adultos", 100, "U (Unidad)", 3600),
    T("Limpieza", "Detergente ropa bebe", 100, "U (Unidad)", 3500),
    T("Limpieza", "Detergente ropa platos", 100, "U (Unidad)", 2500),
    T("Limpieza", "Lavandina", 100, "U (Unidad)", 2000),
    T("Limpieza", "Trapo de piso", 100, "U (Unidad)", 600),
    T("Limpieza", "jaboncillo adulto", 100, "U (Unidad)", 2000),
    T("Limpieza", "jaboncillo bebe", 100, "U (Unidad)", 2000),
    T("Limpieza", "Panal bebe pack", 100, "U (Unidad)", 9000),
    T("Limpieza", "Bolsa de basura Grande pack", 100, "U (Unidad)", 1000),
    T("Otros", "Agua bebe", 300, "L (Litro)", 1100),
    T("Otros", "Pan Frances", 500, "U (Unidad)", 500)
>>

\* relabel a frame 0..n-1 (a fresh RangeIndex, or concat(ignore_index=True))
Reindex(df) == Frame([i \in 1..Len(df) |-> [df[i] EXCEPT !.idx = i - 1]])

\* get_default_template(): 48 rows in app.py and "app copy.py", the first
\* row alone in app_bk.py
get_default_template(v) ==
    LET n == IF v = "app_bk" THEN 1 ELSE Len(TemplateRows)
    IN  Frame([i \in 1..n |->
                 Row(i - 1, TemplateRows[i].category, TemplateRows[i].name,
                     TemplateRows[i].quantity, TemplateRows[i].unit,
                     TemplateRows[i].price, FALSE)])

-----------------------------------------------------------------------------
(* Inputs of the model *)

Lista(n) == "Lista 2024-06-" \o n

\* a list written by hand and by the app: unsorted, a name borne twice, a
\* category outside the enumeration, comma decimals
GridA == << expected_cols,
            <<"Otros", "Agua bebe", "3", "L (Litro)", "11", "TRUE">>,
            <<"Bebidas", "Jugo", "1", "L (Litro)", "7", "TRUE">>,
            <<"Verduras", "Zapallo", "0,5", "kg", "5", "FALSE">>,
            <<"Abarrotes", "Agua bebe", "3", "L (Litro)", "12,5", "TRUE">>,
            <<"Verduras", "Acelga", "2", "U (Unidad)", "0", "FALSE">> >>

\* a list with nothing checked, a comma-decimal quantity and a price of
\* seven significant digits
GridB == << expected_cols,
            <<"Frutas", "Manzana", "1,5", "kg", "0", "FALSE">>,
            <<"Carnes", "Pollo", "2", "U (Unidad)", "12345,67", "FALSE">> >>

\* a list edited by hand in the spreadsheet: the price column removed, a
\* quantity that is no number, lower-case texts in is_checked, a row without
\* a name and a row left blank
GridC == << <<"category", "name", "quantity", "unit", "is_checked">>,
            <<"Frutas", "Pera", "1,5", "kg", "true">>,
            <<"Carnes", "Res", "abc", "kg", "false">>,
            <<"", "", "", "", "">>,
            <<"Limpieza", "", "", "", "">> >>

\* a list whose is_checked column was removed in the spreadsheet
GridD == << <<"category", "name", "quantity", "unit", "price">>,
            <<"Frutas", "Uva", "2", "kg", "3,5">> >>

HeaderOnly == << expected_cols >>

ListA == Lista("01")
ListB == Lista("05")
ListC == Lista("02")
ListD == Lista("03")

\* a spreadsheet with its default tab alone
StoreFresh == [t \in {"Hoja1"} |-> <<>>]

\* a spreadsheet holding MaxLists lists
StoreFull ==
    [t \in {"Hoja1"} \cup {Lista(n) : n \in {"01", "02", "03", "04", "05",
                                             "06", "07", "08", "09", "10"}} |->
        CASE t = "Hoja1" -> <<>>
          [] t = ListA   -> GridA
          [] t = ListB   -> GridB
          [] t = ListC   -> GridC
          [] t = ListD   -> GridD
          [] OTHER       -> HeaderOnly]

InitStores == {StoreFresh, StoreFull}

\* names typed into the create form: a new name, a reserved name no tab
\* bears, the default tab's name, none, a stored title
NewNames == {"Compras", "Sheet1", "Hoja1", "", ListB}

\* the lists this model opens
Followed == {ListA, ListB, ListC, ListD} \cup NewNames

\* the lists this model copies
Copied == {ListA, ListB} \cup NewNames

Seeds(titles) ==
    {[kind |-> "empty", src |-> ""], [kind |-> "default", src |-> ""]}
    \cup {[kind |-> "copy", src |-> t] : t \in Range(titles) \cap Copied}

\* prices typed into a number input of the shop form
PriceInputs == {250, 1234567}

\* the forms a user can submit from the rendered one: as shown, one checkbox
\* toggled, or one price retyped
SubmitForms(form) ==
    {form}
    \cup {[form EXCEPT ![i].is_checked = ~@] : i \in DOMAIN form \cap 0..MaxFormRow}
    \cup {[form EXCEPT ![i].price = p] :
             i \in DOMAIN form \cap 0..MaxFormRow, p \in PriceInputs}

\* the edits of the planning grid before a save
GridEdits == {"none", "delete", "insert", "quantity"}

\* a row typed into the planning grid
NewItem(idx) == Row(idx, "Abarrotes", "Cafe", 100, "U (Unidad)", 0, FALSE)

\* the grids, the titles and the item names of the inputs
InputGrids == {GridA, GridB, GridC, GridD}

Titles == DOMAIN StoreFull \cup NewNames

ItemNames ==
    {TemplateRows[i].name : i \in DOMAIN TemplateRows}
    \cup UNION {{g[r][2] : r \in 2..Len(g)} : g \in InputGrids}
    \cup {NewItem(0).name}

\* str.lower() and the order of str, tabulated once over the titles and over
\* the item names of the inputs
LowerOf == [t \in Titles |-> Lower(t)]

TitleOrder == [t \in Titles |-> Cardinality({u \in Titles : TextLess(u, t)})]

NameOrder == [n \in ItemNames |-> Cardinality({u \in ItemNames : TextLess(u, n)})]

-----------------------------------------------------------------------------
(* Record codec *)

\* df[col] of one record of the grid; a column the header lacks is pd.NA
Cell(header, rec, col) ==
    IF \E j \in 1..Len(header) : header[j] = col
    THEN rec[CHOOSE j \in 1..Len(header) :
                 header[j] = col /\ \A k \in 1..(j - 1) : header[k] # col]
    ELSE NA

\* pd.Categorical(values, categories=CATEGORIAS, ordered=True): a value
\* outside the categories becomes NaN
Categorical(c) == IF c \in CatSet THEN c ELSE NA

\* the codes of the ordered Categorical
CatCode == [c \in CatSet |-> CHOOSE i \in 1..Len(CATEGORIAS) : CATEGORIAS[i] = c]

\* the sort key of a category: its code; NaN sorts last
CatPos(c) == IF c \in CatSet THEN CatCode[c] ELSE Len(CATEGORIAS) + 1

\* order of the name key: str comparison, missing last
NameLess(a, b) == a # NA /\ (b = NA \/ NameOrder[a] < NameOrder[b])

\* sort_values(by=["category", "name"], ascending=True)'s order of two rows
RowLess(a, b) ==
    \/ CatPos(a.category) < CatPos(b.category)
    \/ CatPos(a.category) = CatPos(b.category) /\ NameLess(a.name, b.name)

\* the rows of s whose category has the code c, in their order
OfCode(s, c) == SelectSeq(s, LAMBDA r : CatPos(r.category) = c)

\* whether the row at j goes before the row at i in a stable sort by name:
\* an earlier row unless the later one is less, a later row if it is less
Precedes(b, j, i) ==
    NameLess(b[IF j < i THEN i ELSE j].name, b[IF j < i THEN j ELSE i].name)
      # (j < i)

\* the rows of b put at their places: place[i] is where the row at i goes
Placed(b, place) ==
    Frame([p \in 1..Len(b) |-> b[CHOOSE i \in 1..Len(b) : place[i] = p]])

\* the rows of one category sorted by name: the row at position i goes
\* behind the rows that are less and the equal rows that precede it (stable)
ByName(b) == Placed(b, Frame([i \in 1..Len(b) |->
                            1 + Cardinality({j \in 1..Len(b) : Precedes(b, j, i)})]))

RECURSIVE FromCode(_, _)
\* the rows of the categories from the code c on, each category sorted by name
FromCode(s, c) ==
    IF c > Len(CATEGORIAS) + 1 THEN <<>>
    ELSE ByName(OfCode(s, c)) \o FromCode(s, c + 1)

\* a frame left in the order of its rows
KeepOrder(s) == s

\* sort_values(by=["category", "name"], ascending=True): the categories in
\* the order of their codes, NaN last, each sorted by name
sort_values(s) == FromCode(s, 1)

\* read_worksheet_as_df: the grid of get_all_values() as a frame of texts,
\* category made an ordered Categorical, rows sorted; the index label of a
\* row is its position among the records of the sheet
read_worksheet_as_df(data) ==
    IF data = <<>> THEN <<>>
    ELSE LET header  == data[1]
             records == Tail(data)
         IN  sort_values(Frame(
               [i \in 1..Len(records) |->
                  [idx        |-> i - 1,
                   category   |-> Categorical(Cell(header, records[i], "category")),
                   name       |-> Cell(header, records[i], "name"),
                   quantity   |-> Cell(header, records[i], "quantity"),
                   unit       |-> Cell(header, records[i], "unit"),
                   price      |-> Cell(header, records[i], "price"),
                   is_checked |-> Cell(header, records[i], "is_checked")]]))

\* a row dropna(how='all') drops: every column missing
AllNA(r) ==
    /\ r.category = NA /\ r.name = NA /\ r.quantity = NA
    /\ r.unit = NA /\ r.price = NA /\ r.is_checked = NA

\* is_checked.replace({...}).astype(bool) of one cell: the texts of the
\* mapping are replaced, any other text is a str and bool(str) is its
\* non-emptiness; "app copy.py" maps None to False as well
CheckedOf(v, t) ==
    CASE t = "TRUE"  -> TRUE
      [] t = "FALSE" -> FALSE
      [] t = ""      -> FALSE
      [] t = NA      -> FALSE
      [] OTHER       -> TRUE

\* astype(bool) raises on pd.NA (TypeError: boolean value of NA is ambiguous)
\* unless the replace mapping has turned it into False before
CheckedRaises(v, t) == t = NA /\ v # "app_copy"

\* a decimal column coerced as the text stands in the cell
DecimalKeepComma(t) == to_numeric_fillna(t)

\* the decimal column of get_list_data:
\* astype(str).str.replace(',', '.'), to_numeric(errors='coerce'), fillna(0.0)
DecimalOf(t) == to_numeric_fillna(ReplaceChar(t, ",", "."))

\* the coercions of get_list_data on the rows kept: is_checked to bool,
\* quantity and price to numbers.  ok is FALSE when a coercion raises.
Coerced(v, kept) ==
    IF \E i \in 1..Len(kept) : CheckedRaises(v, kept[i].is_checked)
    THEN [ok |-> FALSE, df |-> <<>>]
    ELSE [ok |-> TRUE,
          df |-> Frame([i \in 1..Len(kept) |->
                    Row(kept[i].idx, kept[i].category, kept[i].name,
                        DecimalOf(kept[i].quantity), kept[i].unit,
                        DecimalOf(kept[i].price),
                        CheckedOf(v, kept[i].is_checked))])]

\* get_list_data after the tab lookup: decode, drop the all-missing rows,
\* coerce
get_list_data(v, data) ==
    Coerced(v, SelectSeq(read_worksheet_as_df(data), LAMBDA r : ~AllNA(r)))

\* one data row of write_df_to_worksheet: category astype(str) (NaN becomes
\* the text "nan"), the decimals through format_to_comma_string, every other
\* missing value ''; a bool cell is shown by the sheet as TRUE / FALSE
EncodeRow(r) ==
    << IF r.category = NA THEN "nan" ELSE r.category,
       IF r.name = NA THEN "" ELSE r.name,
       IF "quantity" \in r.na THEN "" ELSE format_to_comma_string(r.quantity),
       IF r.unit = NA THEN "" ELSE r.unit,
       IF "price" \in r.na THEN "" ELSE format_to_comma_string(r.price),
       IF "is_checked" \in r.na THEN ""
       ELSE IF r.is_checked THEN "TRUE" ELSE "FALSE" >>

\* values = [header] + data
ValuesOf(df) == <<expected_cols>> \o Frame([i \in 1..Len(df) |-> EncodeRow(df[i])])

\* write_df_to_worksheet(worksheet, df): clear() then update('A1', values);
\* an exception of either call is caught and False is returned.  A failing
\* update leaves the cleared sheet.
write_df_to_worksheet(old, df, fault) ==
    CASE fault = "clear"  -> [ok |-> FALSE, grid |-> old]
      [] fault = "update" -> [ok |-> FALSE, grid |-> <<>>]
      [] OTHER            -> [ok |-> TRUE, grid |-> ValuesOf(df)]

-----------------------------------------------------------------------------
(* List repository *)

\* the 10-list retention cap
MaxLists == 10

\* the default-tab names get_all_lists filters out (compared lower-cased)
Reserved == {"hoja1", "sheet1"}

\* sorted(...) of a set of titles: a title goes behind the titles less than it
SortTitles(S) ==
    LET keyed == {<<1 + Cardinality({u \in S : TitleOrder[u] < TitleOrder[t]}), t>> : t \in S}
    IN  Frame([p \in 1..Cardinality(S) |-> (CHOOSE q \in keyed : q[1] = p)[2]])

\* an enumeration that keeps the default tabs
AllTabs(sh) == SortTitles(DOMAIN sh)

\* get_all_lists: the titles of the tabs but the reserved ones, sorted
get_all_lists(sh) == SortTitles({t \in DOMAIN sh : LowerOf[t] \notin Reserved})

\* spreadsheet.worksheet(title) finds the tab
HasTab(sh, t) == t \in DOMAIN sh

\* add_worksheet is refused for an empty title and for a title a tab bears
\* already (the spreadsheet compares titles without regard to case)
CanAddTab(sh, t) == t # "" /\ \A u \in DOMAIN sh : LowerOf[u] # LowerOf[t]

\* the spreadsheet without the tab t
DelTab(sh, t) == [u \in DOMAIN sh \ {t} |-> sh[u]]

\* the spreadsheet with the tab t holding grid g
PutTab(sh, t, g) == (t :> g) @@ sh

-----------------------------------------------------------------------------
(* Session and rendering *)

Variants == {"app", "app_bk", "app_copy"}

\* st.session_state.current_list_name = None
NoList == "<None>"

\* the row of a frame that bears the index label i
RowAt(df, i) == df[CHOOSE k \in 1..Len(df) : df[k].idx = i]

Labels(df) == {df[k].idx : k \in 1..Len(df)}

\* the rows the shop form shows: for cat in CATEGORIAS, the rows of cat
ShownLabels(df) == {df[k].idx : k \in {j \in 1..Len(df) : df[j].category \in CatSet}}

\* the widgets of the shop form after a run over df.  A checkbox or number
\* input keeps the value it holds while its key (the index label) and its
\* value= default are those of the previous run; otherwise it shows the
\* default, the loaded value of the row.
ShopWidgets(prevdf, prevform, df) ==
    [i \in ShownLabels(df) |->
        LET r    == RowAt(df, i)
            kept == i \in DOMAIN prevform /\ i \in Labels(prevdf)
        IN  [is_checked |-> IF kept /\ RowAt(prevdf, i).is_checked = r.is_checked
                            THEN prevform[i].is_checked ELSE r.is_checked,
             price      |-> IF kept /\ RowAt(prevdf, i).price = r.price
                            THEN prevform[i].price ELSE r.price]]

\* no widget at all
NoForm == [i \in {} |-> [is_checked |-> FALSE, price |-> 0]]

\* a second session that has opened no list
NoPeer == [cur |-> NoList, df |-> <<>>, form |-> NoForm, saves |-> 0]

\* main() after st.rerun(): the selector when no list is open, else
\* render_list_editor, which loads the open list.  A failing load is reported
\* and the run stops; "app copy.py" clears current_list_name first.
Render(v, sh, cur, vm, prevdf, prevform, loadFault) ==
    IF cur = NoList
    THEN [cur |-> NoList, screen |-> "selector", titles |-> get_all_lists(sh),
          df |-> <<>>, form |-> NoForm]
    ELSE LET found == HasTab(sh, cur) /\ ~loadFault
             got   == IF found THEN get_list_data(v, sh[cur])
                      ELSE [ok |-> FALSE, df |-> <<>>]
         IN  IF ~got.ok
             THEN [cur |-> IF v = "app_copy" THEN NoList ELSE cur,
                   screen |-> "load_error", titles |-> <<>>, df |-> <<>>,
                   form |-> NoForm]
             ELSE [cur |-> cur, screen |-> "editor", titles |-> <<>>,
                   df |-> got.df,
                   form |-> IF vm = "shop"
                            THEN ShopWidgets(prevdf, prevform, got.df)
                            ELSE NoForm]

\* the record of a user action: its inputs, its outcome, the spreadsheet and
\* the loaded frame it started from, the form it submitted and the frame it
\* handed to write_df_to_worksheet
Last(op, name, kind, src, fault, outcome, before, loaded, form, written) ==
    [op |-> op, name |-> name, kind |-> kind, src |-> src, fault |-> fault,
     outcome |-> outcome, before |-> before, loaded |-> loaded,
     form |-> form, written |-> written]

-----------------------------------------------------------------------------
(* Totals of the shopping view *)

RECURSIVE SumRange(_, _, _)
\* the sum of the prices of the rows lo..hi of df
SumRange(df, lo, hi) ==
    IF lo > hi THEN 0
    ELSE IF lo = hi THEN df[lo].price
    ELSE SumRange(df, lo, (lo + hi) \div 2) + SumRange(df, ((lo + hi) \div 2) + 1, hi)

\* df['price'].sum()
SumPrice(df) == SumRange(df, 1, Len(df))

\* the rows that bear a price, checked or not
Priced(df) == SelectSeq(df, LAMBDA r : r.price > 0)

\* df[df['is_checked']]
Bought(df) == SelectSeq(df, LAMBDA r : r.is_checked)

\* groupby("category")["price"].sum().reset_index() on the ordered
\* Categorical: one row per category in the order of the enumeration; with
\* observed=False every category of the enumeration has a row (a category
\* without rows sums to 0), with observed=True only those df holds; rows
\* whose category is NaN are in no group
GroupTotals(obs, df) ==
    LET all == [c \in 1..Len(CATEGORIAS) |->
                  [category |-> CATEGORIAS[c],
                   total    |-> SumPrice(SelectSeq(df,
                                  LAMBDA r : r.category = CATEGORIAS[c]))]]
    IN  IF obs
        THEN SelectSeq(all, LAMBDA g : \E k \in 1..Len(df) : df[k].category = g.category)
        ELSE all

RECURSIVE SumTotals(_)
\* totals_by_category["Total ($)"].sum()
SumTotals(rows) == IF rows = <<>> THEN 0 ELSE Head(rows).total + SumTotals(Tail(rows))

\* final_df of "app copy.py": the loaded frame with the widget values of the
\* session state laid over it
Overlay(df, form) ==
    Frame([k \in 1..Len(df) |->
             IF df[k].idx \in DOMAIN form
             THEN [df[k] EXCEPT !.is_checked = form[df[k].idx].is_checked,
                                !.price = form[df[k].idx].price]
             ELSE df[k]])

\* the frame the totals are computed from
TotalsTable(v, df, form) == IF v = "app_copy" THEN Overlay(df, form) ELSE df

NoSummary == [metric |-> FALSE, total |-> 0, table |-> FALSE, rows |-> <<>>]

\* the totals block of the shopping view: whether the grand-total metric and
\* the per-category table are shown, and what they hold.  obs is the
\* observed= default of groupby (False before pandas 3, True from it on).
Summary(v, obs, df, form) ==
    LET t      == TotalsTable(v, df, form)
        bought == Bought(t)
        groups == GroupTotals(obs, bought)
    IN  CASE v = "app" ->
               IF t # <<>> /\ bought # <<>>
               THEN [metric |-> TRUE, total |-> SumPrice(bought), table |-> TRUE,
                     rows |-> SelectSeq(groups, LAMBDA g : g.total > 0)]
               ELSE NoSummary
          [] v = "app_bk" ->
               IF t # <<>>
               THEN [metric |-> TRUE, total |-> SumPrice(bought), table |-> FALSE,
                     rows |-> <<>>]
               ELSE NoSummary
          [] OTHER ->
               IF t # <<>> /\ bought # <<>>
               THEN [metric |-> TRUE, total |-> SumTotals(groups), table |-> TRUE,
                     rows |-> groups]
               ELSE NoSummary

-----------------------------------------------------------------------------
(* List selector: create and load *)

\* the frame raw of a source list made a seed
SeedOf(raw) ==
    Frame([i \in 1..Len(raw) |->
             Row(raw[i].idx, raw[i].category, raw[i].name,
                 to_numeric_fillna(raw[i].quantity), raw[i].unit, 0, FALSE)])

\* the seed frame of a copy: read_worksheet_as_df of the source, price 0.0,
\* is_checked False, then pd.to_numeric(errors='coerce').fillna(0.0) on the
\* quantity texts as they are stored
CopySeed(data) == SeedOf(read_worksheet_as_df(data))

\* a create form that finds no name taken
NeverDuplicate(titles, name) == FALSE

\* the duplicate check of "Crear": name in list_titles
IsDuplicate(titles, name) == name \in Range(titles)

\* the "Crear" submit of render_list_selector up to the session update:
\* duplicate check, eviction, seed, add_worksheet, write.  titles is the
\* enumeration the selector rendered.
CreateResult(v, sh, titles, name, seed, fault) ==
    LET full    == Len(titles) >= MaxLists
        delFail == full /\ (fault = "delete" \/ ~HasTab(sh, titles[1]))
        sh1     == IF full /\ ~delFail THEN DelTab(sh, titles[1]) ELSE sh
        srcGone == seed.kind = "copy" /\ (~HasTab(sh1, seed.src) \/ fault = "read")
        df      == CASE seed.kind = "default" -> get_default_template(v)
                     [] seed.kind = "copy" /\ ~srcGone -> CopySeed(sh1[seed.src])
                     [] OTHER -> <<>>
        addFail == ~CanAddTab(sh1, name) \/ fault = "add"
        wr      == write_df_to_worksheet(<<>>, df, fault)
    IN  CASE v = "app_copy" /\ name = "" ->
                [sheets |-> sh, outcome |-> "ignored", opened |-> FALSE, written |-> <<>>]
          [] IsDuplicate(titles, name) ->
                [sheets |-> sh, outcome |-> "rejected", opened |-> FALSE, written |-> <<>>]
          [] delFail /\ v = "app_copy" ->
                [sheets |-> sh, outcome |-> "error", opened |-> FALSE, written |-> <<>>]
          [] srcGone ->
                [sheets |-> sh1, outcome |-> "uncaught", opened |-> FALSE, written |-> <<>>]
          [] addFail ->
                [sheets |-> sh1,
                 outcome |-> IF v = "app_copy" THEN "error" ELSE "uncaught",
                 opened |-> FALSE, written |-> <<>>]
          [] OTHER ->
                [sheets |-> PutTab(sh1, name, wr.grid),
                 outcome |-> IF wr.ok THEN "ok" ELSE "write_failed",
                 opened |-> TRUE, written |-> df]

\* the faults a create can meet: only of the storage calls it makes
CreateFaults(titles, seed) ==
    {"none", "add", "clear", "update"}
    \cup (IF Len(titles) >= MaxLists THEN {"delete"} ELSE {})
    \cup (IF seed.kind = "copy" THEN {"read"} ELSE {})

Create(name, seed, fault) ==
    /\ screen = "selector"
    /\ creates < MaxCreates
    /\ saves = 0
    /\ \E res \in {CreateResult(variant, sheets, list_titles, name, seed, fault)} :
         \* a failure is an input only where the handler makes the call
         /\ \/ fault = "none"
            \/ res # CreateResult(variant, sheets, list_titles, name, seed, "none")
         /\ \E rd \in {Render(variant, res.sheets,
                              IF res.opened THEN name ELSE NoList,
                              "plan", <<>>, NoForm, FALSE)} :
              /\ sheets' = res.sheets
              /\ current_list_name' = rd.cur
              /\ view_mode' = IF res.opened THEN "plan" ELSE view_mode
              /\ screen' = rd.screen
              /\ list_titles' = rd.titles
              /\ items_df' = rd.df
              /\ temp_updates' = rd.form
              /\ last' = Last("create", name, seed.kind, seed.src, fault,
                              res.outcome, sheets, <<>>, NoForm, res.written)
    /\ creates' = creates + 1
    /\ UNCHANGED <<variant, observed, saves, peer>>

\* a load that leaves the view mode as it finds it
LoadKeepsMode(t, loadFault) ==
    /\ screen = "selector"
    /\ \E rd \in {Render(variant, sheets, t, "shop", <<>>, NoForm, loadFault)} :
         /\ current_list_name' = rd.cur
         /\ screen' = rd.screen
         /\ list_titles' = rd.titles
         /\ items_df' = rd.df
         /\ temp_updates' = rd.form
         /\ last' = Last("load", t, "", "", IF loadFault THEN "load" ELSE "none",
                         IF rd.screen = "editor" THEN "ok" ELSE "error",
                         sheets, <<>>, NoForm, <<>>)
    /\ UNCHANGED <<variant, observed, sheets, view_mode, creates, saves, peer>>

\* the "Cargar" button: open the selected list in shopping mode
Load(t, loadFault) ==
    /\ screen = "selector"
    /\ \E rd \in {Render(variant, sheets, t, "shop", <<>>, NoForm, loadFault)} :
         /\ current_list_name' = rd.cur
         /\ screen' = rd.screen
         /\ list_titles' = rd.titles
         /\ items_df' = rd.df
         /\ temp_updates' = rd.form
         /\ last' = Last("load", t, "", "", IF loadFault THEN "load" ELSE "none",
                         IF rd.screen = "editor" THEN "ok" ELSE "error",
                         sheets, <<>>, NoForm, <<>>)
    /\ view_mode' = "shop"
    /\ UNCHANGED <<variant, observed, sheets, creates, saves, peer>>

\* the back button of render_list_editor: app.py clears the list name alone
Back ==
    /\ screen \in {"editor", "load_error"}
    /\ current_list_name' = NoList
    /\ view_mode' = IF variant = "app" THEN view_mode ELSE "none"
    /\ screen' = "selector"
    /\ list_titles' = get_all_lists(sheets)
    /\ items_df' = <<>>
    /\ temp_updates' = NoForm
    /\ last' = Last("back", current_list_name, "", "", "none", "ok", sheets,
                    items_df, NoForm, <<>>)
    /\ UNCHANGED <<variant, observed, sheets, creates, saves, peer>>

-----------------------------------------------------------------------------
(* List editor: shopping form and planning grid *)

\* df_to_save of the shop form: the loaded frame with the form values put at
\* the index labels of the widgets; "app copy.py" drops the rows without a
\* name (dropna(subset=['name']))
ShopFrame(v, df, form) ==
    LET applied == Overlay(df, form)
    IN  IF v = "app_copy" THEN SelectSeq(applied, LAMBDA r : r.name # NA)
        ELSE applied

\* the faults a save can meet: the tab lookup, clear(), update()
SaveFaults == {"none", "lookup", "clear", "update"}

\* a save handler from the tab lookup on: an exception of the lookup is
\* caught by "app copy.py" alone, a failing write returns False; rerun tells
\* whether st.rerun() is reached (app.py's shop form does not test the result)
SaveResult(v, sh, cur, frame, fault, always) ==
    IF ~HasTab(sh, cur) \/ fault = "lookup"
    THEN [sheets |-> sh, outcome |-> IF v = "app_copy" THEN "error" ELSE "uncaught",
          rerun |-> FALSE]
    ELSE LET wr == write_df_to_worksheet(sh[cur], frame, fault)
         IN  [sheets |-> PutTab(sh, cur, wr.grid),
              outcome |-> IF wr.ok THEN "ok" ELSE "write_failed",
              rerun |-> wr.ok \/ always]

\* "Guardar Todo" of the shop form, submitted with the widget values form
BulkSave(form, fault) ==
    /\ screen = "editor"
    /\ view_mode = "shop"
    /\ saves < MaxSaves
    /\ \E frame \in {ShopFrame(variant, items_df, form)} :
       \E res \in {SaveResult(variant, sheets, current_list_name, frame, fault,
                              variant = "app")} :
       \E rd \in {IF res.rerun
                  THEN Render(variant, res.sheets, current_list_name, "shop",
                              items_df, form, FALSE)
                  ELSE [cur |-> current_list_name, screen |-> "editor",
                        titles |-> <<>>, df |-> items_df, form |-> form]} :
         /\ sheets' = res.sheets
         /\ current_list_name' = rd.cur
         /\ screen' = rd.screen
         /\ list_titles' = rd.titles
         /\ items_df' = rd.df
         /\ temp_updates' = rd.form
         /\ last' = Last("bulk_save", current_list_name, "", "", fault,
                         res.outcome, sheets, items_df, form, frame)
    /\ saves' = saves + 1
    /\ UNCHANGED <<variant, observed, view_mode, creates, peer>>

\* edited_df: the frame the data editor returns after one edit.  The grid of
\* app_bk.py holds price and is_checked (disabled): a row added there has
\* none of them.
ApplyEdit(v, df, e) ==
    CASE e = "delete" /\ df # <<>>   -> Tail(df)
      [] e = "quantity" /\ df # <<>> -> [df EXCEPT ![1].quantity = 250]
      [] e = "insert" ->
           Append(df, [NewItem(Len(df)) EXCEPT
                         !.na = IF v = "app_bk" THEN {"price", "is_checked"} ELSE {}])
      [] OTHER -> df

\* the frame "Guardar" of the planning grid writes.  app_bk.py coerces price
\* and quantity of edited_df; "app copy.py" edits items_df[column_order], so
\* edited_df has neither price nor is_checked and both columns are added with
\* 0.0 and False, and rows without a name are dropped.
PlanFrame(v, edited) ==
    IF v = "app_copy"
    THEN LET named == SelectSeq(edited, LAMBDA r : r.name # NA)
         IN  Frame([k \in 1..Len(named) |->
                      [named[k] EXCEPT !.price = 0, !.is_checked = FALSE]])
    ELSE Frame([k \in 1..Len(edited) |->
                  [edited[k] EXCEPT !.na = @ \ {"price", "quantity"}]])

\* "Guardar Tabla" / "Guardar Cambios" of the planning grid (app_bk.py and
\* "app copy.py"), pressed after the edit e
PlanSave(e, fault) ==
    /\ variant \in {"app_bk", "app_copy"}
    /\ screen = "editor"
    /\ view_mode = "plan"
    /\ saves < MaxSaves
    /\ \E frame \in {PlanFrame(variant, ApplyEdit(variant, items_df, e))} :
       \E res \in {SaveResult(variant, sheets, current_list_name, frame, fault, FALSE)} :
       \E rd \in {IF res.rerun
                  THEN Render(variant, res.sheets, current_list_name, "plan",
                              items_df, NoForm, FALSE)
                  ELSE [cur |-> current_list_name, screen |-> "editor",
                        titles |-> <<>>, df |-> items_df, form |-> NoForm]} :
         /\ sheets' = res.sheets
         /\ current_list_name' = rd.cur
         /\ screen' = rd.screen
         /\ list_titles' = rd.titles
         /\ items_df' = rd.df
         /\ temp_updates' = rd.form
         /\ last' = Last("plan_save", current_list_name, e, "", fault,
                         res.outcome, sheets, items_df, NoForm, frame)
    /\ saves' = saves + 1
    /\ UNCHANGED <<variant, observed, view_mode, creates, peer>>

-----------------------------------------------------------------------------
(* Immediate actions: quick-add, delete by name, autosave by name *)

\* the rows of the planning list that get a delete button and autosave inputs
MaxPlanRow == 3

\* the item typed into a quick-add form
QuickItems ==
    { [category |-> "Abarrotes", name |-> "Cafe", quantity |-> 100,
       unit |-> "U (Unidad)"] }

\* pd.concat([items_df, new], ignore_index=True) with price 0.0 and
\* is_checked False
QuickFrame(df, it) ==
    Reindex(Append(df, Row(0, it.category, it.name, it.quantity, it.unit, 0, FALSE)))

\* the values the shop form holds unsubmitted while another form is sent:
\* its first widget is toggled and priced, where it has one
PendingForms(form) ==
    IF DOMAIN form = {} THEN {form}
    ELSE {[form EXCEPT ![i].is_checked = ~@, ![i].price = 250] :
             i \in {j \in DOMAIN form : \A k \in DOMAIN form : j <= k}}

\* "Anadir" of the quick-add form (app.py in both modes, app_bk.py in shop
\* mode): the loaded frame and the new row are written, the result of the
\* write is not tested, st.rerun() follows; the tab lookup is outside any try
QuickAdd(it, pending, fault) ==
    /\ screen = "editor"
    /\ variant = "app" \/ (variant = "app_bk" /\ view_mode = "shop")
    /\ saves < MaxSaves
    /\ \E frame \in {QuickFrame(items_df, it)} :
       \E res \in {SaveResult(variant, sheets, current_list_name, frame, fault, TRUE)} :
       \E rd \in {IF res.rerun
                  THEN Render(variant, res.sheets, current_list_name, view_mode,
                              items_df, temp_updates, FALSE)
                  ELSE [cur |-> current_list_name, screen |-> "editor",
                        titles |-> <<>>, df |-> items_df, form |-> temp_updates]} :
         /\ sheets' = res.sheets
         /\ current_list_name' = rd.cur
         /\ screen' = rd.screen
         /\ list_titles' = rd.titles
         /\ items_df' = rd.df
         /\ temp_updates' = rd.form
         /\ last' = Last("quick_add", current_list_name, "", it.name, fault,
                         res.outcome, sheets, items_df, pending, frame)
    /\ saves' = saves + 1
    /\ UNCHANGED <<variant, observed, view_mode, creates, peer>>

\* a delete that drops the first row of the name alone
WithoutFirst(df, name) ==
    SelectSeq(df, LAMBDA r : r.name # name
                             \/ \E k \in 1..Len(df) :
                                   df[k].name = name /\ df[k].idx < r.idx)

\* current_df[current_df['name'] != item_name]
WithoutName(df, name) == SelectSeq(df, LAMBDA r : r.name # name)

\* current_df.loc[current_df['name'] == item_name, col_key] = new_val
SetByName(df, name, col, val) ==
    Frame([k \in 1..Len(df) |->
             IF df[k].name # name THEN df[k]
             ELSE IF col = "quantity" THEN [df[k] EXCEPT !.quantity = val]
             ELSE [df[k] EXCEPT !.unit = val]])

\* the names of the rows the planning list of app.py shows first
PlanNames(df) ==
    {df[k].name : k \in {j \in 1..Len(df) : j <= MaxPlanRow /\ df[j].category \in CatSet}}

\* the values typed into a quantity input and chosen in a unit select box
InstantEdits == {[col |-> "quantity", val |-> 250], [col |-> "unit", val |-> "g"]}

\* what a write of frame leaves: the grid of the tab, and whether it failed
Written(sh, cur, wr) ==
    [sheets |-> PutTab(sh, cur, wr.grid),
     outcome |-> IF wr.ok THEN "ok" ELSE "write_failed"]

\* the try block of delete_item and of save_instant_edit after the frame is
\* built: an exception of get_list_data or of the tab lookup is caught and
\* reported, the result of write_df_to_worksheet is not tested
InstantResult(sh, cur, ok, frame, fault) ==
    IF ~ok \/ ~HasTab(sh, cur) \/ fault = "lookup"
    THEN [sheets |-> sh, outcome |-> "error"]
    ELSE Written(sh, cur, write_df_to_worksheet(sh[cur], frame, fault))

\* the planning list of app.py is on screen
PlanEditor == variant = "app" /\ screen = "editor" /\ view_mode = "plan"

\* the common step of delete_item and save_instant_edit (app.py, planning
\* mode): edit is the frame made of the list as it is read again; the page
\* is rendered from the spreadsheet afterwards
Instant(op, col, name, got, edit, fault) ==
    /\ saves < MaxSaves
    /\ \E res \in {InstantResult(sheets, current_list_name, got.ok, edit, fault)} :
       \E rd \in {Render(variant, res.sheets, current_list_name, "plan",
                         items_df, NoForm, FALSE)} :
         /\ sheets' = res.sheets
         /\ current_list_name' = rd.cur
         /\ screen' = rd.screen
         /\ list_titles' = rd.titles
         /\ items_df' = rd.df
         /\ temp_updates' = rd.form
         /\ last' = Last(op, current_list_name, col, name, fault, res.outcome,
                         sheets, got.df, NoForm, edit)
    /\ saves' = saves + 1
    /\ UNCHANGED <<variant, observed, view_mode, creates, peer>>

\* the delete button of a row: delete_item(spreadsheet, list_name, name)
DeleteItem(name, fault) ==
    /\ PlanEditor
    /\ \E got \in {get_list_data(variant, sheets[current_list_name])} :
         Instant("delete_item", "", name, got, WithoutName(got.df, name), fault)

\* on_change of a quantity or unit input: save_instant_edit
SaveInstantEdit(name, e, fault) ==
    /\ PlanEditor
    /\ \E got \in {get_list_data(variant, sheets[current_list_name])} :
         Instant("instant_edit", e.col, name, got,
                 SetByName(got.df, name, e.col, e.val), fault)

\* the faults of an immediate action: the tab lookup, update()
InstantFaults == {"none", "lookup", "update"}

-----------------------------------------------------------------------------
(* Specification *)

Init ==
    /\ variant \in Variants
    /\ observed \in (IF variant = "app_bk" THEN {FALSE} ELSE BOOLEAN)
    /\ sheets \in InitStores
    /\ current_list_name = NoList
    /\ view_mode = "none"
    /\ screen = "selector"
    /\ list_titles = get_all_lists(sheets)
    /\ items_df = <<>>
    /\ temp_updates = NoForm
    /\ last = Last("init", "", "", "", "none", "ok", sheets, <<>>, NoForm, <<>>)
    /\ creates = 0
    /\ saves = 0
    /\ peer = NoPeer

Next ==
    \/ \E name \in NewNames, seed \in Seeds(list_titles) :
          \E fault \in CreateFaults(list_titles, seed) : Create(name, seed, fault)
    \/ \E t \in Range(list_titles) \cap Followed, f \in BOOLEAN : Load(t, f)
    \/ Back
    \/ \E form \in SubmitForms(temp_updates), fault \in SaveFaults :
          BulkSave(form, fault)
    \/ \E e \in GridEdits, fault \in SaveFaults : PlanSave(e, fault)
    \/ \E it \in QuickItems, pending \in PendingForms(temp_updates),
          fault \in InstantFaults : QuickAdd(it, pending, fault)
    \/ \E name \in PlanNames(items_df), fault \in InstantFaults :
          DeleteItem(name, fault)
    \/ \E name \in PlanNames(items_df), e \in InstantEdits,
          fault \in InstantFaults : SaveInstantEdit(name, e, fault)

Spec == Init /\ [][Next]_vars

-----------------------------------------------------------------------------
(* Properties *)

\* load(t) on the spreadsheet of the current state
StoredItems(t) == get_list_data(variant, sheets[t]).df

\* the row of a frame read from a sheet that sits at position k of the sheet
\* (the index label of a freshly read row is its position less one)
SheetRow(df, k) == RowAt(df, k - 1)

\* two items agree on the four descriptive fields
SameItem(a, b) ==
    /\ a.name = b.name /\ a.category = b.category
    /\ a.quantity = b.quantity /\ a.unit = b.unit

\* the title create evicts: the first of the enumeration before the create
Oldest == get_all_lists(last.before)[1]

\* C1: in every state reachable by create operations, also those whose
\* eviction delete fails, the spreadsheet holds at most 10 enumerated lists.
C1_AtMostTenLists == Len(get_all_lists(sheets)) <= MaxLists

\* C2: a successful create with a fresh name at exactly 10 enumerated lists
\* deletes exactly one list, the smallest enumerated title; every other tab
\* keeps its grid and 10 lists are enumerated afterwards.
C2_EvictsSmallest ==
    ( /\ last.op = "create" /\ last.outcome = "ok"
      /\ Len(get_all_lists(last.before)) = MaxLists
      /\ ~HasTab(last.before, last.name)
      /\ Lower(last.name) \notin Reserved )
    => /\ DOMAIN last.before \ DOMAIN sheets = {Oldest}
       /\ \A t \in DOMAIN last.before \ {Oldest} :
             HasTab(sheets, t) /\ sheets[t] = last.before[t]
       /\ Len(get_all_lists(sheets)) = MaxLists

\* C3: a list created as a copy of L, no storage call failing, holds one
\* item per item of L, with price 0.0 and is_checked false and with L's
\* name, category, quantity and unit, comma-decimal quantities included.
C3_CopyKeepsItems ==
    ( /\ last.op = "create" /\ last.kind = "copy"
      /\ last.outcome = "ok" /\ last.fault = "none" )
    => LET src == get_list_data(variant, last.before[last.src]).df
           new == StoredItems(last.name)
       IN  /\ Len(new) = Len(src)
           /\ \A k \in 1..Len(src) :
                 /\ SameItem(new[k], src[k])
                 /\ new[k].price = 0
                 /\ new[k].is_checked = FALSE

\* C4: after a planning-grid save every row that was loaded and not deleted
\* is stored with the price and is_checked it was loaded with; a row inserted
\* in the grid is stored with price 0 and is_checked false.
C4_PlanSaveKeepsPriceAndCheck ==
    (last.op = "plan_save" /\ last.outcome = "ok")
    => LET now == StoredItems(last.name)
       IN  /\ Len(now) = Len(last.written)
           /\ \A k \in 1..Len(last.written) :
                 LET lbl == last.written[k].idx
                     new == SheetRow(now, k)
                 IN  IF lbl \in Labels(last.loaded)
                     THEN /\ new.price = RowAt(last.loaded, lbl).price
                          /\ new.is_checked = RowAt(last.loaded, lbl).is_checked
                     ELSE new.price = 0 /\ new.is_checked = FALSE

\* C5: after a bulk save of the shop form the list stores one row per loaded
\* row; a row shown in the form has the form's is_checked and price of its
\* index label, a row not shown has its loaded ones, and name, category,
\* quantity and unit of every row are the loaded ones.
C5_BulkSaveFrame ==
    (last.op = "bulk_save" /\ last.outcome = "ok")
    => LET now == StoredItems(last.name)
       IN  /\ Len(now) = Len(last.loaded)
           /\ \A k \in 1..Len(last.loaded) :
                 LET old == last.loaded[k]
                     new == SheetRow(now, k)
                 IN  /\ SameItem(new, old)
                     /\ IF old.idx \in DOMAIN last.form
                        THEN /\ new.is_checked = last.form[old.idx].is_checked
                             /\ new.price = last.form[old.idx].price
                        ELSE /\ new.is_checked = old.is_checked
                             /\ new.price = old.price

\* C6: after a successful save of a table of fully valued items, loading the
\* list returns exactly the rows of the table: as many rows, each with the
\* field values written.
C6_SaveThenLoad ==
    ( /\ last.op \in {"create", "bulk_save", "plan_save"}
      /\ last.outcome = "ok"
      /\ \A k \in 1..Len(last.written) :
            last.written[k].na = {} )
    => LET now == StoredItems(last.name)
       IN  /\ Len(now) = Len(last.written)
           /\ \A k \in 1..Len(last.written) :
                 /\ SameItem(SheetRow(now, k), last.written[k])
                 /\ SheetRow(now, k).price = last.written[k].price
                 /\ SheetRow(now, k).is_checked = last.written[k].is_checked

\* the grid cell of column col of the record a loaded row was read from
CellOf(grid, r, col) == Cell(grid[1], grid[r.idx + 2], col)

\* C7: load returns the stored records, each once, ordered by the position
\* of the category in the enumeration and then by name ascending; a row
\* whose category is outside the enumeration follows every row whose
\* category is in it.
C7_LoadSorted ==
    (last.op = "load" /\ last.outcome = "ok")
    => LET grid == sheets[last.name]
           n    == Len(items_df)
       IN  /\ n = (IF grid = <<>> THEN 0 ELSE Len(grid) - 1)
           /\ Labels(items_df) = 0..(n - 1)
           /\ \A k \in 1..n :
                 /\ items_df[k].name = CellOf(grid, items_df[k], "name")
                 /\ items_df[k].category =
                       Categorical(CellOf(grid, items_df[k], "category"))
           /\ \A i, j \in 1..n :
                 i < j =>
                   LET a == items_df[i]
                       b == items_df[j]
                   IN  /\ a.category \notin CatSet => b.category \notin CatSet
                       /\ CatPos(a.category) <= CatPos(b.category)
                       /\ CatPos(a.category) = CatPos(b.category)
                             => ~TextLess(b.name, a.name)

\* a load of a list stored out of order, with a category outside the
\* enumeration in its middle: the rows come back in another order
C7_LoadedUnsortedList ==
    /\ last.op = "load" /\ last.outcome = "ok"
    /\ Len(items_df) = 5
    /\ items_df[5].category = NA
    /\ \E k \in 1..4 : items_df[k].idx > items_df[k + 1].idx
    /\ \E k \in 1..4 : /\ items_df[k].category = items_df[k + 1].category
                       /\ TextLess(items_df[k].name, items_df[k + 1].name)

\* the sum of price over the checked rows of df
CheckedSum(df) == SumPrice(SelectSeq(df, LAMBDA r : r.is_checked))

\* the sum of price over the checked rows of df of category c
CheckedSumOf(df, c) ==
    SumPrice(SelectSeq(df, LAMBDA r : r.is_checked /\ r.category = c))

\* C8: whenever the shopping view shows totals, each per-category total is
\* the sum of price over the checked items of that category and the grand
\* total is the sum of price over all checked items of the table.
C8_TotalsAreCheckedSums ==
    (screen = "editor" /\ view_mode = "shop")
    => LET t == TotalsTable(variant, items_df, temp_updates)
           s == Summary(variant, observed, items_df, temp_updates)
       IN  /\ s.metric => s.total = CheckedSum(t)
           /\ \A g \in Range(s.rows) :
                 g.total = CheckedSumOf(t, g.category)

\* C9: the shopping view of a list without checked items shows no totals,
\* neither the grand total nor the per-category table; and a row of the
\* per-category table is of a category that has a checked item.
C9_NoTotalsWithoutChecked ==
    (screen = "editor" /\ view_mode = "shop")
    => LET t == TotalsTable(variant, items_df, temp_updates)
           s == Summary(variant, observed, items_df, temp_updates)
       IN  /\ Bought(t) = <<>> => ~s.metric /\ ~s.table
           /\ \A g \in Range(s.rows) :
                 \E k \in 1..Len(t) : t[k].is_checked /\ t[k].category = g.category

\* a comma-decimal text: digits, at most one comma with digits after it
IsCommaDecimal(t) ==
    LET ni   == DigitPrefixLen(t)
        rest == SubSeq(t, ni + 1, Len(t))
    IN  /\ ni > 0
        /\ \/ rest = ""
           \/ /\ Head(rest) = ","
              /\ Len(rest) > 1
              /\ DigitPrefixLen(Tail(rest)) = Len(rest) - 1

\* a well-formed grid: the header, then records with a category of the
\* enumeration, a name, comma-decimal quantity and price, TRUE or FALSE
WellFormed(grid) ==
    /\ grid # <<>>
    /\ grid[1] = expected_cols
    /\ \A k \in 2..Len(grid) :
          /\ grid[k][1] \in CatSet
          /\ grid[k][2] # ""
          /\ IsCommaDecimal(grid[k][3])
          /\ IsCommaDecimal(grid[k][5])
          /\ grid[k][6] \in {"TRUE", "FALSE"}

\* C10: the records of a well-formed grid, decoded, encoded and decoded
\* again, have the quantity, price and is_checked of the first decoding.
C10_RoundTrip ==
    ( /\ screen = "editor"
      /\ HasTab(sheets, current_list_name)
      /\ WellFormed(sheets[current_list_name]) )
    => LET first  == StoredItems(current_list_name)
           second == get_list_data(variant, ValuesOf(first)).df
       IN  /\ Len(second) = Len(first)
           /\ \A k \in 1..Len(first) :
                 /\ second[k].quantity = first[k].quantity
                 /\ second[k].price = first[k].price
                 /\ second[k].is_checked = first[k].is_checked

\* the number a comma-decimal text of at most FracDigits decimals denotes
CommaDecimalValue(t) ==
    LET ni   == DigitPrefixLen(t)
        frac == SubSeq(t, ni + 2, Len(t))
    IN  DigitsValue(SubSeq(t, 1, ni), 0) * Scale
          + DigitsValue(frac, 0) * Pow10(FracDigits - Len(frac))

\* the cell texts that are no number: the empty cell, "abc", a missing column
NoNumber == {"", "abc", NA}

\* v is the decoding the cell text c is to have
DecodesTo(c, v) ==
    /\ (c \notin NoNumber /\ IsCommaDecimal(c)) => v = CommaDecimalValue(c)
    /\ c \in NoNumber => v = 0

\* C11: a load that meets no storage failure does not fail over the decimal
\* cells (it succeeds whenever the sheet has its is_checked column), and
\* every loaded quantity and price is the number its comma-decimal cell
\* denotes, or 0.0 for an empty cell, for "abc" and for a missing column.
C11_DecodeDecimals ==
    (last.op = "load" /\ last.fault = "none")
    => LET grid == sheets[last.name]
       IN  /\ (grid = <<>> \/ "is_checked" \in Range(grid[1]))
                 => last.outcome = "ok"
           /\ last.outcome = "ok"
                 => \A k \in 1..Len(items_df) :
                       /\ DecodesTo(CellOf(grid, items_df[k], "quantity"),
                                    items_df[k].quantity)
                       /\ DecodesTo(CellOf(grid, items_df[k], "price"),
                                    items_df[k].price)

\* the load of the hand-edited list: "1,5" read as 1.5, "abc" and the empty
\* cell read as 0, the missing price column read as 0
C11_LoadedHandEdited ==
    /\ last.op = "load" /\ last.outcome = "ok" /\ last.name = ListC
    /\ \E k \in 1..Len(items_df) :
          /\ CellOf(sheets[ListC], items_df[k], "quantity") = "1,5"
          /\ items_df[k].quantity = 150
          /\ CellOf(sheets[ListC], items_df[k], "price") = NA
          /\ items_df[k].price = 0
    /\ \E k \in 1..Len(items_df) :
          /\ CellOf(sheets[ListC], items_df[k], "quantity") = "abc"
          /\ items_df[k].quantity = 0
    /\ \E k \in 1..Len(items_df) :
          /\ CellOf(sheets[ListC], items_df[k], "quantity") = ""
          /\ items_df[k].quantity = 0


\* C12: a load that meets no storage failure succeeds, and is_checked of
\* every loaded row is true exactly when its cell holds the text "TRUE": it
\* is false for "FALSE", for an empty cell, for a missing is_checked column
\* and for any other text.
C12_DecodeChecked ==
    (last.op = "load" /\ last.fault = "none")
    => /\ last.outcome = "ok"
       /\ \A k \in 1..Len(items_df) :
             items_df[k].is_checked
                = (CellOf(sheets[last.name], items_df[k], "is_checked") = "TRUE")


\* C13: a bulk save of the list as loaded writes back the category text of
\* every item whose stored category is outside the enumeration: the text in
\* the sheet after the save is the text the load read.
C13_CategoryTextKept ==
    (last.op = "bulk_save" /\ last.outcome = "ok")
    => \A k \in 1..Len(last.written) :
          LET read == CellOf(last.before[last.name], last.written[k], "category")
          IN  read \notin CatSet => sheets[last.name][k + 1][1] = read


\* C14: every item of an opened list has a name (a grid row whose name cell
\* is empty is not loaded), and no save writes a row without a name.
C14_LoadedItemsHaveNames ==
    /\ screen = "editor" => \A k \in 1..Len(items_df) : items_df[k].name \notin {"", NA}
    /\ last.op \in {"bulk_save", "plan_save"}
          => \A k \in 1..Len(last.written) : last.written[k].name \notin {"", NA}


\* C15: a create whose name is the title of an enumerated list is rejected
\* and changes nothing: the spreadsheet (no eviction, no new tab, every grid
\* as it was), the current list name and the view mode stay as they were and
\* the selector stays on screen.
C15_DuplicateRejected ==
    [][ ( /\ last'.op = "create"
          /\ creates' # creates
          /\ last'.name \in Range(get_all_lists(sheets)) )
        => /\ last'.outcome = "rejected"
           /\ sheets' = sheets
           /\ current_list_name' = current_list_name
           /\ view_mode' = view_mode
           /\ screen' = "selector" ]_vars

\* a create with the name of a stored list, submitted with 10 lists stored
\* and a view mode left by an earlier load
C15_DuplicateSubmittedWhenFull ==
    /\ last.op = "create"
    /\ last.name \in Range(get_all_lists(last.before))
    /\ Len(get_all_lists(last.before)) = MaxLists
    /\ view_mode = "shop"


\* the outcomes of a handler that end with a message of the application
\* (st.error): a rejected create, a caught exception, a failed write
Reported == last.outcome \in {"rejected", "error", "write_failed"}

\* C16: a create submitted without a name, no storage call failing, is
\* reported and aborted: the spreadsheet is as it was (no list evicted, no
\* tab added), and the selector stays on screen.
C16_EmptyNameAborted ==
    (last.op = "create" /\ last.name = "" /\ last.fault = "none")
    => /\ Reported
       /\ sheets = last.before
       /\ screen = "selector"
       /\ current_list_name = NoList


\* C17: a create that runs with 10 or more lists and whose delete of the
\* oldest list fails reports the failure and still creates the list: the
\* tab of the new name exists and holds the seed.
C17_EvictionFailureReported ==
    ( /\ last.op = "create" /\ last.fault = "delete"
      /\ Len(get_all_lists(last.before)) >= MaxLists
      /\ CanAddTab(last.before, last.name) )
    => /\ Reported
       /\ HasTab(sheets, last.name)
       /\ sheets[last.name] = ValuesOf(last.written)


\* C18: a save whose clear or update raises ends as a failed write, not as
\* an exception; the editor stays on the same list with the table it had
\* loaded, and the shop form still holds the values that were submitted.
C18_WriteFailureKeepsEdits ==
    (last.op \in {"bulk_save", "plan_save"} /\ last.fault \in {"clear", "update"})
    => /\ last.outcome = "write_failed"
       /\ screen = "editor"
       /\ current_list_name = last.name
       /\ items_df = last.loaded
       /\ last.op = "bulk_save" => temp_updates = last.form


\* C19: when the load of the open list has failed, the current list name is
\* cleared: the session is back at the selector.
C19_LoadFailureClearsList ==
    screen = "load_error" => current_list_name = NoList


\* C20: no user action ends with an exception of a storage call propagating
\* out of its handler, and an action during which a storage call failed
\* ends with a message of the application.
C20_FailuresReported ==
    last.fault # "none" => (last.outcome # "uncaught" /\ Reported)


\* C23: the enumeration the selector shows holds exactly the titles of the
\* tabs whose lower-cased title is no reserved default-tab name, each once,
\* in ascending order of str; a tab that differs from a reserved name in
\* letter case only is left out.
C23_EnumerateSorted ==
    screen = "selector"
    => /\ Range(list_titles) = {t \in DOMAIN sheets : Lower(t) \notin Reserved}
       /\ Len(list_titles) = Cardinality(Range(list_titles))
       /\ \A i \in 1..(Len(list_titles) - 1) :
             TextLess(list_titles[i], list_titles[i + 1])

\* the selector after a create and a back, the default tab "Hoja1" stored
C23_EnumeratedBesideDefaultTab ==
    /\ screen = "selector" /\ last.op = "back"
    /\ HasTab(sheets, "Hoja1") /\ "Hoja1" \notin Range(list_titles)
    /\ "Compras" \in Range(list_titles)
    /\ Len(list_titles) = MaxLists


\* the operations that rewrite the open list
SaveOps == {"bulk_save", "plan_save"}

\* C26: a save whose write fails, in clear() or in update(), leaves the
\* grid of the list as it was stored before the save.
C26_FailedWriteKeepsRows ==
    (last.op \in SaveOps /\ last.outcome = "write_failed")
    => /\ HasTab(sheets, last.name)
       /\ sheets[last.name] = last.before[last.name]

\* the name, category and unit of the rows of a stored grid
Described(v, grid) ==
    [k \in 1..Len(get_list_data(v, grid).df) |->
        [name     |-> get_list_data(v, grid).df[k].name,
         category |-> get_list_data(v, grid).df[k].category,
         unit     |-> get_list_data(v, grid).df[k].unit]]

\* C27: a create with an addable name as a copy of an enumerated list L, no
\* storage call failing, stores the new list with one item per item of L,
\* of L's name, category and unit -- also when 10 lists are stored and L is
\* the first of the enumeration.
C27_CopyOfAnyList ==
    ( /\ last.op = "create" /\ last.kind = "copy" /\ last.fault = "none"
      /\ ~IsDuplicate(get_all_lists(last.before), last.name)
      /\ CanAddTab(last.before, last.name) )
    => /\ last.outcome = "ok"
       /\ HasTab(sheets, last.name)
       /\ Described(variant, sheets[last.name])
            = Described(variant, last.before[last.src])

\* C28: a create that ends without the new list stored, because
\* add_worksheet or the read of the copy source failed, leaves the
\* spreadsheet as it was: no list has been evicted.
C28_FailedCreateKeepsLists ==
    (last.op = "create" /\ last.outcome \in {"uncaught", "error"})
    => sheets = last.before

\* C29: whenever the shopping view shows the grand total and the
\* per-category table, the grand total is the sum of the totals of the table.
C29_GrandTotalIsSumOfRows ==
    (screen = "editor" /\ view_mode = "shop")
    => LET s == Summary(variant, observed, items_df, temp_updates)
       IN  (s.metric /\ s.table) => s.total = SumTotals(s.rows)


\* C30: whenever a list is open the view mode is "plan" or "shop"; a list
\* opened by a load is in "shop", a list opened by a create is in "plan"
C30_OpenListHasViewMode ==
    current_list_name # NoList =>
        /\ view_mode \in {"plan", "shop"}
        /\ last.op = "load" => view_mode = "shop"
        /\ last.op = "create" => view_mode = "plan"

\* a load fails on a list that stays open in shopping mode after a planning
\* session of the same user
C30_FailedLoadAfterPlanning ==
    /\ last.op = "load"
    /\ last.outcome = "error"
    /\ current_list_name # NoList
    /\ view_mode = "shop"
    /\ creates = MaxCreates


\* the rows of a frame without their index labels
Unlabelled(df) ==
    [k \in 1..Len(df) |->
        [category |-> df[k].category, name |-> df[k].name,
         quantity |-> df[k].quantity, unit |-> df[k].unit,
         price |-> df[k].price, is_checked |-> df[k].is_checked]]

WithoutAt(s, k) == [i \in 1..(Len(s) - 1) |-> IF i < k THEN s[i] ELSE s[i + 1]]

\* the row a quick-add of the item makes
QuickRow(it) ==
    [category |-> it.category, name |-> it.name, quantity |-> it.quantity,
     unit |-> it.unit, price |-> 0, is_checked |-> FALSE]

\* C22: after a quick-add the list holds the rows it held, each with all its
\* fields as loaded (not as pending in the shop form), and one row more: the
\* item entered, with price 0 and unchecked
C22_QuickAddAppendsOne ==
    (last.op = "quick_add" /\ last.outcome = "ok") =>
        LET now == Unlabelled(StoredItems(last.name))
            old == Unlabelled(last.loaded)
        IN  \E it \in QuickItems, k \in 1..Len(now) :
               /\ it.name = last.src
               /\ now[k] = QuickRow(it)
               /\ WithoutAt(now, k) = old


-----------------------------------------------------------------------------
(* Scenario: create from the default template, load, mark three, save, reload *)

\* the rows of the shop form the scenario marks are among the first MaxMarkRow
\* widgets and the last one
MaxMarkRow == 4

\* the name the scenario gives its list: one no spreadsheet of Init holds
ScenarioNames == {"Compras"}

\* the prices typed on the three items: 10, 20 and 30
MarkPrices == <<1000, 2000, 3000>>

\* the widgets the scenario may mark
MarkLabels(form) ==
    {i \in DOMAIN form : i < MaxMarkRow \/ \A j \in DOMAIN form : j <= i}

\* the form with the checkboxes of three widgets ticked and their prices typed
Marked(form, pick) ==
    [i \in DOMAIN form |->
        IF \E n \in 1..3 : pick[n] = i
        THEN [is_checked |-> TRUE,
              price |-> MarkPrices[CHOOSE n \in 1..3 : pick[n] = i]]
        ELSE form[i]]

\* the forms of the rendered one with any three items marked
MarkedForms(form) ==
    {Marked(form, pick) :
        pick \in {p \in [1..3 -> MarkLabels(form)] :
                     p[1] # p[2] /\ p[1] # p[3] /\ p[2] # p[3]}}

\* the widget labels a form holds ticked at one of the three prices
MarkedIn(form) ==
    {i \in DOMAIN form :
        form[i].is_checked /\ \E n \in 1..3 : form[i].price = MarkPrices[n]}

ScenarioCreate ==
    \E name \in ScenarioNames : Create(name, [kind |-> "default", src |-> ""], "none")

ScenarioLoad ==
    \E t \in Range(list_titles) \cap ScenarioNames : Load(t, FALSE)

\* the one save of the scenario
ScenarioSave ==
    /\ saves = 0
    /\ \E form \in MarkedForms(temp_updates) : BulkSave(form, "none")

ScenarioNext == ScenarioCreate \/ Back \/ ScenarioLoad \/ ScenarioSave

Scenario == Init /\ [][ScenarioNext]_vars

\* C25: in the scenario, the save stores the three marked items checked with
\* their prices and every other item unchecked, and the list loaded
\* afterwards shows exactly three checked items and the grand total 60
C25_ScenarioTotalSixty ==
    /\ (last.op = "bulk_save") =>
          LET now == StoredItems(last.name)
          IN  /\ last.outcome = "ok"
              /\ Len(now) = Len(last.loaded)
              /\ \A k \in 1..Len(now) :
                    /\ SameItem(now[k], last.loaded[k])
                    /\ now[k].is_checked = (last.loaded[k].idx \in MarkedIn(last.form))
                    /\ now[k].is_checked =>
                          now[k].price = last.form[last.loaded[k].idx].price
              /\ Cardinality(MarkedIn(last.form)) = 3
    /\ (last.op = "load" /\ saves > 0) =>
          /\ screen = "editor"
          /\ items_df = StoredItems(current_list_name)
          /\ Cardinality({k \in 1..Len(items_df) : items_df[k].is_checked}) = 3
          /\ Summary(variant, observed, items_df, temp_updates).metric
          /\ Summary(variant, observed, items_df, temp_updates).total = 6000

\* the list is loaded again after the save that marked its last item and two
\* of its first
C25_ReloadedAfterMarking ==
    /\ last.op = "load"
    /\ saves > 0
    /\ Len(items_df) > MaxMarkRow
    /\ items_df[Len(items_df)].is_checked


-----------------------------------------------------------------------------
(* Two sessions on one list *)

\* the lists the two sessions open: a stored one, one the first session makes
RaceLists == {ListA, "Compras"}

\* the first session makes its list as a copy of ListB
RaceSeed == [kind |-> "copy", src |-> ListB]

\* the forms a session submits: one checkbox toggled, or the price 2.5 typed
RaceForms(form) ==
    {[form EXCEPT ![i].is_checked = ~@] : i \in DOMAIN form \cap 0..MaxFormRow}
    \cup {[form EXCEPT ![i].price = 250] : i \in DOMAIN form \cap 0..MaxFormRow}

\* the script run a submitted shop form starts: the list is read again
\* (get_list_data at the top of render_list_editor), the widgets are built
\* over the rows read, and their values are laid over these rows
SubmitRun(v, prevdf, form, grid) ==
    LET got   == get_list_data(v, grid)
        shown == ShopWidgets(prevdf, form, got.df)
    IN  [ok |-> got.ok, loaded |-> got.df, form |-> shown,
         frame |-> ShopFrame(v, got.df, shown)]

RaceInit == Init /\ variant = "app" /\ sheets = StoreFull

RaceCreate == Create("Compras", RaceSeed, "none")

RaceLoad == \E t \in Range(list_titles) \cap RaceLists : Load(t, FALSE)

\* "Guardar Todo" of the first session
RaceSave(form) ==
    /\ screen = "editor"
    /\ view_mode = "shop"
    /\ saves < MaxSaves
    /\ HasTab(sheets, current_list_name)
    /\ \E run \in {SubmitRun(variant, items_df, form, sheets[current_list_name])} :
       \E res \in {SaveResult(variant, sheets, current_list_name, run.frame,
                              "none", TRUE)} :
       \E rd \in {Render(variant, res.sheets, current_list_name, "shop",
                         run.loaded, run.form, FALSE)} :
         /\ run.ok
         /\ sheets' = res.sheets
         /\ current_list_name' = rd.cur
         /\ screen' = rd.screen
         /\ list_titles' = rd.titles
         /\ items_df' = rd.df
         /\ temp_updates' = rd.form
         /\ last' = Last("bulk_save", current_list_name, "first", "", "none",
                         res.outcome, sheets, items_df, form, run.frame)
    /\ saves' = saves + 1
    /\ UNCHANGED <<variant, observed, view_mode, creates, peer>>

\* save_instant_edit of the first session; the record keeps the table the
\* session had on its page
RaceEdit(name, e) ==
    /\ PlanEditor
    /\ saves < MaxSaves
    /\ HasTab(sheets, current_list_name)
    /\ \E got \in {get_list_data(variant, sheets[current_list_name])} :
       \E frame \in {SetByName(got.df, name, e.col, e.val)} :
       \E res \in {InstantResult(sheets, current_list_name, got.ok, frame, "none")} :
       \E rd \in {Render(variant, res.sheets, current_list_name, "plan",
                         items_df, NoForm, FALSE)} :
         /\ sheets' = res.sheets
         /\ current_list_name' = rd.cur
         /\ screen' = rd.screen
         /\ list_titles' = rd.titles
         /\ items_df' = rd.df
         /\ temp_updates' = rd.form
         /\ last' = Last("instant_edit", current_list_name, e.col, name, "none",
                         res.outcome, sheets, items_df, NoForm, frame)
    /\ saves' = saves + 1
    /\ UNCHANGED <<variant, observed, view_mode, creates, peer>>

\* the load button of the second session
PeerLoad(t) ==
    /\ peer.cur = NoList
    /\ HasTab(sheets, t)
    /\ \E got \in {get_list_data(variant, sheets[t])} :
         /\ got.ok
         /\ peer' = [cur |-> t, df |-> got.df,
                     form |-> ShopWidgets(<<>>, NoForm, got.df), saves |-> 0]
    /\ UNCHANGED <<variant, observed, sheets, current_list_name, view_mode, screen,
                   list_titles, items_df, temp_updates, last, creates, saves>>

\* "Guardar Todo" of the second session
PeerSave(form) ==
    /\ peer.cur # NoList
    /\ peer.saves < MaxSaves
    /\ HasTab(sheets, peer.cur)
    /\ \E run \in {SubmitRun(variant, peer.df, form, sheets[peer.cur])} :
       \E res \in {SaveResult(variant, sheets, peer.cur, run.frame, "none", TRUE)} :
       \E got \in {get_list_data(variant, res.sheets[peer.cur])} :
         /\ run.ok
         /\ sheets' = res.sheets
         /\ peer' = [cur |-> peer.cur, df |-> got.df,
                     form |-> ShopWidgets(run.loaded, run.form, got.df),
                     saves |-> peer.saves + 1]
         /\ last' = Last("bulk_save", peer.cur, "second", "", "none",
                         res.outcome, sheets, peer.df, form, run.frame)
    /\ UNCHANGED <<variant, observed, current_list_name, view_mode, screen,
                   list_titles, items_df, temp_updates, creates, saves>>

RaceNext ==
    \/ RaceCreate
    \/ RaceLoad
    \/ \E form \in RaceForms(temp_updates) : RaceSave(form)
    \/ \E name \in PlanNames(items_df), e \in InstantEdits : RaceEdit(name, e)
    \/ \E t \in Range(get_all_lists(sheets)) \cap RaceLists : PeerLoad(t)
    \/ \E form \in RaceForms(peer.form) : PeerSave(form)

Race == RaceInit /\ [][RaceNext]_vars

\* C24: a save of either session stores the table it writes, and this table
\* is the one the session had on its page with its own change and nothing
\* else: what the other session stored in between is not in it
C24_LastWriteWins ==
    (last.op \in {"bulk_save", "instant_edit"} /\ last.outcome = "ok") =>
        /\ Unlabelled(StoredItems(last.name)) = Unlabelled(last.written)
        /\ last.op = "bulk_save" =>
              last.written = ShopFrame(variant, last.loaded, last.form)
        /\ last.op = "instant_edit" =>
              last.written
                = SetByName(last.loaded, last.src, last.kind,
                            (CHOOSE e \in InstantEdits : e.col = last.kind).val)

=============================================================================
